---- MODULE Spec2Model ----
(***************************************************************************)
(* Model of src/qtui/status_bar.cc: the status bar's rate limiter for log  *)
(* messages (set_message_level and its deferred reset), the log handler    *)
(* that producers call from any thread, the main loop that delivers the    *)
(* "qtui log message" events to log_message, and the widget's construction *)
(* and teardown.                                                           *)
(*                                                                         *)
(* Time is a millisecond clock.  A computation step takes no time; the     *)
(* main loop is prompt: a timer runs when it is due and a queued event is  *)
(* delivered before the clock advances.  A producer thread may be delayed  *)
(* for any time before it takes message_lock; from there to its return it  *)
(* takes no time.                                                          *)
(***************************************************************************)
EXTENDS Integers, Sequences, FiniteSets, TLC

VARIABLES
    current_message_level,   \* static int current_message_level
    current_message_serial,  \* static unsigned current_message_serial
    message_lock,            \* static aud::spinlock message_lock: its holder
    message_func,            \* static QueuedFunc message_func: the queued reset
    main,                    \* the main loop's thread: what it is running
    prod,                    \* the producer threads inside log_handler
    events,                  \* pending "qtui log message" events, oldest first
    display,                 \* the message the QStatusBar shows, if any
    alive,                   \* a StatusBar exists (its hooks are associated)
    subscribed,              \* log_handler is subscribed to audlog
    now,                     \* the clock, in ms
    opened,                  \* history: when the last message was admitted
    cancelled,               \* history: events dropped by the last teardown
    step,                    \* scenario driver: calls of Scenario made so far
    results,                 \* scenario driver: what those calls returned
    css,                     \* the style sheet last given to setStyleSheet
    codec_visible,           \* codec_label is shown
    ready,                   \* what aud_drct_get_ready() returns
    crashed                  \* the process has been ended by a fault

vars == <<current_message_level, current_message_serial, message_lock,
          message_func, main, prod, events, display, alive, subscribed,
          now, opened, cancelled, step, results, css, codec_visible, ready,
          crashed>>

(***************************************************************************)
(* Bounds of the model.                                                    *)
(***************************************************************************)
NumProducers == 2
MaxSerial == 2
MaxTime == 5000
MaxTextLen == 4

(***************************************************************************)
(* Program constants.                                                      *)
(***************************************************************************)
\* audlog::Level: Debug < Info < Warning < Error
Warning == 2
Error == 3
Info == Warning - 1
Levels == 0 .. Error
\* audlog::subscribe(log_handler, audlog::Warning): only these reach log_handler
LogLevels == {l \in Levels : l >= Warning}
\* current_message_level = -1: no message is active
NoLevel == -1
\* showMessage(message->text, TIMEOUT_MS)
TIMEOUT_MS == 5000
\* message_func.queue(1000, ...)
CooldownMs == 1000
\* the clock of Spec advances in steps of half a cooldown
Quantum == CooldownMs \div 2

Producers == 1 .. NumProducers

\* no time: of a timer that is not queued, of an event that has not happened
Never == NoLevel
NoTimer == [serial |-> 0, due |-> Never]
NoMessage ==
    [level |-> NoLevel, serial |-> 0, at |-> 0, expiry |-> 0, over |-> "none",
     text |-> <<>>]
Free == <<"free", 0>>
MainHolds == <<"main", 0>>
Holds(p) == <<"prod", p>>

IdleProducer ==
    [pc |-> "idle", level |-> NoLevel, ret |-> FALSE, serial |-> 0, at |-> 0,
     peerwon |-> Never, peerlost |-> FALSE, text |-> <<>>]
IdleMain == [pc |-> "idle", serial |-> 0]

(***************************************************************************)
(* The text of a message, lines 106-112.  A text is a sequence of          *)
(* characters; NL is the line separator.                                   *)
(***************************************************************************)
NL == "\n"
Chars == {"a", "b", NL}
Texts == UNION {[1 .. n -> Chars] : n \in 0 .. MaxTextLen}
OneLine == <<"a">>
TwoLines == <<"a", NL, "b">>

\* QString::contains(c)
Contains(s, c) == \E i \in DOMAIN s : s[i] = c

\* QString::split(sep): the parts between the separators, empty ones too
RECURSIVE Split(_, _)
Split(s, sep) ==
    IF ~Contains(s, sep) THEN <<s>>
    ELSE LET i == CHOOSE k \in DOMAIN s :
                     s[k] = sep /\ \A j \in 1 .. k - 1 : s[j] # sep
         IN  <<SubSeq(s, 1, i - 1)>> \o Split(SubSeq(s, i + 1, Len(s)), sep)

\* Qt::SkipEmptyParts
SkipEmptyParts(parts) == SelectSeq(parts, LAMBDA x : x # <<>>)

\* what a read through QList::last() of an empty list can give: the list
\* has no element, the read is undefined
Garbage == {<<>>, <<"?">>}

\* lines 106-112: what becomes of the text, as the set of its possible
\* outcomes; a text with a separator and no non-empty part reaches last()
\* with an empty list, which ends the process or yields any string
EventText(text) ==
    IF ~Contains(text, NL) THEN {[crash |-> FALSE, text |-> text]}
    ELSE LET parts == SkipEmptyParts(Split(text, NL))
         IN  IF parts # <<>>
               THEN {[crash |-> FALSE, text |-> parts[Len(parts)]]}
               ELSE {[crash |-> TRUE, text |-> <<>>]}
                    \cup {[crash |-> FALSE, text |-> g] : g \in Garbage}

(***************************************************************************)
(* set_message_level, lines 77-98.                                         *)
(***************************************************************************)
\* a plausible slip: a message of the same priority replaces the active one
RejectsOnlyLower(level, cur) == level < cur

\* line 82: do not replace a message of same or higher priority
Rejects(level, cur) == level <= cur

\* a plausible slip: the serial is not advanced
SameSerial(s) == s

\* line 86: current_message_serial++ (an unsigned counter: it wraps to 0 only
\* after 2^32 admissions, far beyond MaxSerial, the cap on the admissions of
\* a run of the model)
NextSerial(s) == s + 1

\* a plausible slip: the cooldown is taken to be the display timeout
DueAfterTimeout(t) == t + TIMEOUT_MS

\* a plausible slip: the reset is queued with no delay
DueAtOnce(t) == t

\* line 89: message_func.queue(1000, ...)
DueAt(t) == t + CooldownMs

\* a plausible slip: the reset runs whatever the serial is
ResetAlways(serial, cur) == TRUE

\* line 93: if (current_message_serial == serial)
ResetApplies(serial, cur) == cur = serial

\* a plausible slip: the reset leaves the level as it is
LevelKept(level) == level

\* line 94: current_message_level = -1
LevelAfterReset(level) == NoLevel

\* a plausible slip: a rejected call still starts a new window
RejectRestarts ==
    /\ current_message_serial' = NextSerial(current_message_serial)
    /\ message_func' = [serial |-> NextSerial(current_message_serial),
                        due |-> DueAt(now)]
    /\ UNCHANGED <<current_message_level, opened>>

\* line 83: return false
RejectEffect ==
    UNCHANGED <<current_message_level, current_message_serial, message_func,
                opened>>

\* lines 85-95: the level is set, the serial advanced and captured, and the
\* reset queued; QueuedFunc::queue replaces a reset that is still queued
AcceptEffect(level) ==
    /\ current_message_level' = level
    /\ current_message_serial' = NextSerial(current_message_serial)
    /\ message_func' = [serial |-> NextSerial(current_message_serial),
                        due |-> DueAt(now)]
    /\ opened' = now

(***************************************************************************)
(* Producer threads: StatusBar::log_handler, lines 100-116.                *)
(***************************************************************************)
InFlight == {p \in Producers : prod[p].pc \in {"take", "crit"}}

\* audlog calls the subscribed handler with a level it subscribed to; the
\* calls stop early enough for their window to end by MaxTime
LogHandlerCall(p, level, text) ==
    /\ subscribed
    /\ prod[p].pc = "idle"
    /\ current_message_serial + Cardinality(InFlight) < MaxSerial
    /\ DueAt(now) <= MaxTime
    /\ prod' = [prod EXCEPT ![p] =
                  [IdleProducer EXCEPT !.pc = "take", !.level = level,
                                       !.text = text]]
    /\ UNCHANGED <<current_message_level, current_message_serial,
                   message_lock, message_func, main, events, display, alive,
                   subscribed, now, opened, cancelled, step,
                   results, css, codec_visible, ready, crashed>>

\* line 79: auto lh = message_lock.take()
Take(p) ==
    /\ prod[p].pc = "take"
    /\ message_lock = Free
    /\ message_lock' = Holds(p)
    /\ prod' = [prod EXCEPT ![p].pc = "crit"]
    /\ UNCHANGED <<current_message_level, current_message_serial,
                   message_func, main, events, display, alive, subscribed,
                   now, opened, cancelled, step,
                   results, css, codec_visible, ready, crashed>>

\* history: a call waiting for the lock learns what a call of the same
\* severity, made while it waits, returned (and when it was admitted)
Told(p, won) ==
    [q \in Producers |->
       IF q # p /\ prod[q].pc = "take" /\ prod[q].level = prod[p].level
         THEN IF won THEN [prod[q] EXCEPT !.peerwon = now]
                     ELSE [prod[q] EXCEPT !.peerlost = TRUE]
         ELSE prod[q]]

\* a plausible slip: the early return of line 83 keeps the lock
LockKeptOnReject(p, rejected) == IF rejected THEN Holds(p) ELSE Free

\* lines 83, 97: lh goes out of scope at either return and releases the lock
LockAfterReturn(p, rejected) == Free

\* lines 82-97 under the lock, and the test of line 103
Body(p) ==
    /\ prod[p].pc = "crit"
    /\ message_lock = Holds(p)
    /\ message_lock' =
         LockAfterReturn(p, Rejects(prod[p].level, current_message_level))
    /\ IF Rejects(prod[p].level, current_message_level)
         THEN /\ RejectEffect
              /\ prod' = [Told(p, FALSE) EXCEPT ![p].pc = "ret",
                            ![p].ret = FALSE]
         ELSE /\ AcceptEffect(prod[p].level)
              /\ prod' = [Told(p, TRUE) EXCEPT ![p].pc = "event",
                            ![p].ret = TRUE, ![p].at = now,
                            ![p].serial = NextSerial(current_message_serial)]
    /\ UNCHANGED <<main, events, display, alive, subscribed, now, cancelled,
                   step,
                   results, css, codec_visible, ready, crashed>>

\* lines 106-115: event_queue("qtui log message", new Message{level, s})
QueueEvent(p) ==
    /\ prod[p].pc = "event"
    /\ \E s \in EventText(prod[p].text) :
         IF s.crash
           THEN /\ crashed' = TRUE
                /\ prod' = [prod EXCEPT ![p].pc = "crashed"]
                /\ UNCHANGED events
           ELSE /\ events' = Append(events, [level |-> prod[p].level,
                                            serial |-> prod[p].serial,
                                            at |-> prod[p].at,
                                            text |-> s.text])
                /\ prod' = [prod EXCEPT ![p].pc = "ret", ![p].serial = 0,
                                        ![p].at = 0]
                /\ UNCHANGED crashed
    /\ UNCHANGED <<current_message_level, current_message_serial,
                   message_lock, message_func, main, display, alive,
                   subscribed, now, opened, cancelled, step, results, css,
                   codec_visible, ready>>

\* log_handler returns to audlog::log
Return(p) ==
    /\ prod[p].pc = "ret"
    /\ prod' = [prod EXCEPT ![p] = IdleProducer]
    /\ UNCHANGED <<current_message_level, current_message_serial,
                   message_lock, message_func, main, events, display, alive,
                   subscribed, now, opened, cancelled, step,
                   results, css, codec_visible, ready, crashed>>

(***************************************************************************)
(* The main loop: the deferred reset (lines 89-95), the delivery of the    *)
(* queued events to log_message (lines 118-123) and the expiry of the      *)
(* displayed message.                                                      *)
(***************************************************************************)
\* the queued function is due: the main loop takes it out and calls it
Dequeue ==
    /\ main.pc = "idle"
    /\ message_func # NoTimer
    /\ message_func.due <= now
    /\ main' = [pc |-> "reset_take", serial |-> message_func.serial]
    /\ message_func' = NoTimer
    /\ UNCHANGED <<current_message_level, current_message_serial,
                   message_lock, prod, events, display, alive, subscribed,
                   now, opened, cancelled, step,
                   results, css, codec_visible, ready, crashed>>

\* line 90: auto lh = message_lock.take()
ResetTake ==
    /\ main.pc = "reset_take"
    /\ message_lock = Free
    /\ message_lock' = MainHolds
    /\ main' = [main EXCEPT !.pc = "reset_crit"]
    /\ UNCHANGED <<current_message_level, current_message_serial,
                   message_func, prod, events, display, alive, subscribed,
                   now, opened, cancelled, step,
                   results, css, codec_visible, ready, crashed>>

\* lines 92-94: allow new messages after one second
ResetBody ==
    /\ main.pc = "reset_crit"
    /\ message_lock = MainHolds
    /\ current_message_level' =
         IF ResetApplies(main.serial, current_message_serial)
           THEN LevelAfterReset(current_message_level)
           ELSE current_message_level
    /\ main' = [main EXCEPT !.pc = "reset_ret"]
    /\ UNCHANGED <<current_message_serial, message_lock, message_func, prod,
                   events, display, alive, subscribed, now, opened, cancelled,
                   step,
                   results, css, codec_visible, ready, crashed>>

\* line 95: the callback returns and lh releases the lock
ResetReturn ==
    /\ main.pc = "reset_ret"
    /\ message_lock = MainHolds
    /\ message_lock' = Free
    /\ main' = IdleMain
    /\ UNCHANGED <<current_message_level, current_message_serial,
                   message_func, prod, events, display, alive, subscribed,
                   now, opened, cancelled, step,
                   results, css, codec_visible, ready, crashed>>

(***************************************************************************)
(* The widget: the style sheet and the codec label, lines 55-62, 118-135.  *)
(***************************************************************************)
\* line 121: the style sheet of a message of this level
MessageCss(level) == IF level = Error THEN "error" ELSE "warning"

\* a plausible slip: update_codec without the test of line 128
CodecShownWhenReady(text, rdy, vis) == rdy

\* lines 125-182, update_codec: whether codec_label is shown afterwards;
\* text is currentMessage(), rdy is aud_drct_get_ready()
CodecAfterUpdate(text, rdy, vis) == IF text # <<>> THEN vis ELSE rdy

\* QStatusBar::showMessage emits messageChanged unless the text given is
\* the text it shows already; QStatusBar::clearMessage likewise
MessageChanged(old, new) == old # new

\* lines 118-123 with the handler of lines 55-62: the style sheet and the
\* label after log_message(m), as <<css, codec_visible>>
AfterLogMessage(m) ==
    IF MessageChanged(display.text, m.text) /\ m.text = <<>>
      THEN <<"normal", CodecAfterUpdate(m.text, ready, FALSE)>>
      ELSE <<MessageCss(m.level), FALSE>>

\* lines 55-62: the style sheet and the label after the message shown has
\* been cleared, as <<css, codec_visible>>
AfterClear ==
    IF MessageChanged(display.text, <<>>)
      THEN <<"normal", CodecAfterUpdate(<<>>, ready, codec_visible)>>
      ELSE <<css, codec_visible>>

\* history: what the message shown took the place of
Replaced(level) ==
    IF display = NoMessage THEN "none"
    ELSE IF level > display.level THEN "lower" ELSE "same or higher"

\* the event reaches log_message through the widget's hook, lines 118-123;
\* with no widget there is no hook and the event is only freed
Deliver ==
    /\ main.pc = "idle"
    /\ events # <<>>
    /\ events' = Tail(events)
    /\ display' = IF alive
                    THEN [level |-> Head(events).level,
                          serial |-> Head(events).serial,
                          at |-> Head(events).at,
                          expiry |-> now + TIMEOUT_MS,
                          over |-> Replaced(Head(events).level),
                          text |-> Head(events).text]
                    ELSE display
    /\ css' = IF alive THEN AfterLogMessage(Head(events))[1] ELSE css
    /\ codec_visible' = IF alive THEN AfterLogMessage(Head(events))[2]
                                  ELSE codec_visible
    /\ UNCHANGED <<current_message_level, current_message_serial,
                   message_lock, message_func, main, prod, alive, subscribed,
                   now, opened, cancelled, step, results, ready, crashed>>

\* line 122: the QStatusBar's timer clears the message when TIMEOUT_MS
\* have passed
Expire ==
    /\ main.pc = "idle"
    /\ display # NoMessage
    /\ display.expiry <= now
    /\ display' = NoMessage
    /\ css' = AfterClear[1]
    /\ codec_visible' = AfterClear[2]
    /\ UNCHANGED <<current_message_level, current_message_serial,
                   message_lock, message_func, main, prod, events, alive,
                   subscribed, now, opened, cancelled, step, results, ready,
                   crashed>>

\* update_codec, lines 125-182, called through the widget's hooks
UpdateCodec ==
    /\ main.pc = "idle"
    /\ alive
    /\ codec_visible' = CodecAfterUpdate(display.text, ready, codec_visible)
    /\ UNCHANGED <<current_message_level, current_message_serial,
                   message_lock, message_func, main, prod, events, display,
                   alive, subscribed, now, opened, cancelled, step, results,
                   css, ready, crashed>>

\* line 131: playback becomes ready, or stops being so
PlaybackChange ==
    /\ ready' = ~ready
    /\ UNCHANGED <<current_message_level, current_message_serial,
                   message_lock, message_func, main, prod, events, display,
                   alive, subscribed, now, opened, cancelled, step, results,
                   css, codec_visible, crashed>>

(***************************************************************************)
(* Teardown and construction, lines 41-69, on the main thread.             *)
(***************************************************************************)
\* line 67: audlog::unsubscribe(log_handler); audlog calls the handlers
\* under its lock, so unsubscribe returns when no producer is inside one
DtorUnsubscribe ==
    /\ main.pc = "idle"
    /\ alive
    /\ \A p \in Producers : prod[p].pc = "idle"
    /\ subscribed' = FALSE
    /\ main' = [pc |-> "dtor", serial |-> 0]
    /\ UNCHANGED <<current_message_level, current_message_serial,
                   message_lock, message_func, prod, events, display, alive,
                   now, opened, cancelled, step,
                   results, css, codec_visible, ready, crashed>>

\* a plausible slip: the pending events are left in the queue
DtorKeepsEvents ==
    /\ main.pc = "dtor"
    /\ alive' = FALSE
    /\ display' = NoMessage
    /\ css' = "normal"
    /\ codec_visible' = FALSE
    /\ cancelled' = Len(events)
    /\ main' = IdleMain
    /\ UNCHANGED <<current_message_level, current_message_serial,
                   message_lock, message_func, prod, events, subscribed, now,
                   opened, step, results, ready, crashed>>

\* a plausible slip: teardown also stops the queued reset
DtorStopsReset ==
    /\ main.pc = "dtor"
    /\ events' = <<>>
    /\ message_func' = NoTimer
    /\ alive' = FALSE
    /\ display' = NoMessage
    /\ css' = "normal"
    /\ codec_visible' = FALSE
    /\ cancelled' = Len(events)
    /\ main' = IdleMain
    /\ UNCHANGED <<current_message_level, current_message_serial,
                   message_lock, prod, subscribed, now, opened, step,
                   results, ready, crashed>>

\* line 68: event_queue_cancel("qtui log message"), and the end of
\* ~StatusBar: the widget is gone, nothing is styled or shown
DtorCancel ==
    /\ main.pc = "dtor"
    /\ events' = <<>>
    /\ alive' = FALSE
    /\ display' = NoMessage
    /\ css' = "normal"
    /\ codec_visible' = FALSE
    /\ cancelled' = Len(events)
    /\ main' = IdleMain
    /\ UNCHANGED <<current_message_level, current_message_serial,
                   message_lock, message_func, prod, subscribed, now, opened,
                   step, results, ready, crashed>>

\* lines 41-63: a new StatusBar, with update_codec (line 48) and the normal
\* style (line 51); the rate limiter's statics are kept
Construct ==
    /\ main.pc = "idle"
    /\ ~alive
    /\ alive' = TRUE
    /\ subscribed' = TRUE
    /\ display' = NoMessage
    /\ css' = "normal"
    /\ codec_visible' = CodecAfterUpdate(<<>>, ready, FALSE)
    /\ cancelled' = 0
    /\ UNCHANGED <<current_message_level, current_message_serial,
                   message_lock, message_func, main, prod, events, now,
                   opened, step, results, ready, crashed>>

(***************************************************************************)
(* The scenario driver: one caller making the calls of Scenario, each at   *)
(* its time, straight to set_message_level.                                *)
(***************************************************************************)
Scenario ==
    << [t |-> 0, level |-> Warning], [t |-> 500, level |-> Warning],
       [t |-> 600, level |-> Error], [t |-> 700, level |-> Info],
       [t |-> 1700, level |-> Info] >>

\* set_message_level(level) from take to return, lines 79-97
ScenarioAdmit ==
    /\ step < Len(Scenario)
    /\ now = Scenario[step + 1].t
    /\ message_lock = Free
    /\ IF Rejects(Scenario[step + 1].level, current_message_level)
         THEN /\ RejectEffect
              /\ results' = Append(results, FALSE)
         ELSE /\ AcceptEffect(Scenario[step + 1].level)
              /\ results' = Append(results, TRUE)
    /\ step' = step + 1
    /\ UNCHANGED <<message_lock, main, prod, events, display, alive,
                   subscribed, now, cancelled, css, codec_visible, ready,
                   crashed>>

(***************************************************************************)
(* The clock.                                                              *)
(***************************************************************************)
\* d ms pass.  The steps of the program take no time and what is due is
\* run at once: time passes only with the main loop idle, nothing due and
\* every producer outside its call or at one of the places given, where
\* its thread can be held up
Clock(d, places) ==
    /\ now + d <= MaxTime
    /\ main.pc = "idle"
    /\ message_lock = Free
    /\ \A p \in Producers : prod[p].pc \in {"idle"} \cup places
    /\ \A p \in Producers : prod[p].pc = "take" => DueAt(now + d) <= MaxTime
    /\ events = <<>>
    /\ message_func # NoTimer => now + d <= message_func.due
    /\ display # NoMessage => now + d <= display.expiry
    /\ step < Len(Scenario) => now + d <= Scenario[step + 1].t
    /\ now' = now + d
    /\ UNCHANGED <<current_message_level, current_message_serial,
                   message_lock, message_func, main, prod, events, display,
                   alive, subscribed, opened, cancelled, step,
                   results, css, codec_visible, ready, crashed>>

\* a producer is held up only while it waits for the lock
Tick(d) == Clock(d, {"take"})

TickQuantum == Tick(Quantum)

\* a producer is held up while it waits for the lock or while it returns
TickReturning == Clock(Quantum, {"take", "ret"})

TickMs == Tick(1)

(***************************************************************************)
(* Specifications.                                                         *)
(***************************************************************************)
InitStatics ==
    /\ current_message_level = NoLevel
    /\ current_message_serial = 0
    /\ message_lock = Free
    /\ message_func = NoTimer
    /\ main = IdleMain
    /\ prod = [p \in Producers |-> IdleProducer]
    /\ events = <<>>
    /\ display = NoMessage
    /\ alive = TRUE
    /\ subscribed = TRUE
    /\ now = 0
    /\ opened = 0
    /\ cancelled = 0
    /\ results = <<>>
    /\ css = "normal"
    /\ codec_visible = FALSE
    /\ ready = FALSE
    /\ crashed = FALSE

Init == InitStatics /\ step = Len(Scenario)

Next ==
    \/ \E p \in Producers : \E level \in LogLevels :
         LogHandlerCall(p, level, OneLine)
    \/ \E p \in Producers : Take(p)
    \/ \E p \in Producers : Body(p)
    \/ \E p \in Producers : QueueEvent(p)
    \/ \E p \in Producers : Return(p)
    \/ Dequeue
    \/ ResetTake
    \/ ResetBody
    \/ ResetReturn
    \/ Deliver
    \/ Expire
    \/ DtorUnsubscribe
    \/ DtorCancel
    \/ Construct
    \/ TickQuantum

Spec == Init /\ [][Next]_vars

\* the program under fair scheduling.  Time goes on (the steps of the
\* program take time, so no thread makes infinitely many in an instant); a
\* thread spinning on the lock gets it when it is free again and again; a
\* thread that can make its next step makes it; the main loop runs what is
\* due and delivers what is queued.
NextFair ==
    \/ \E p \in Producers : \E level \in LogLevels :
         LogHandlerCall(p, level, OneLine)
    \/ \E p \in Producers : Take(p)
    \/ \E p \in Producers : Body(p)
    \/ \E p \in Producers : QueueEvent(p)
    \/ \E p \in Producers : Return(p)
    \/ Dequeue
    \/ ResetTake
    \/ ResetBody
    \/ ResetReturn
    \/ Deliver
    \/ Expire
    \/ DtorUnsubscribe
    \/ DtorCancel
    \/ Construct
    \/ TickReturning

Fairness ==
    /\ \A p \in Producers : SF_vars(Take(p))
    /\ \A p \in Producers : WF_vars(Body(p))
    /\ \A p \in Producers : WF_vars(QueueEvent(p))
    /\ SF_vars(Dequeue)
    /\ SF_vars(ResetTake)
    /\ WF_vars(ResetBody)
    /\ WF_vars(ResetReturn)
    /\ SF_vars(Deliver)
    /\ SF_vars(Expire)
    /\ WF_vars(DtorCancel)
    /\ SF_vars(TickReturning)

SpecFair == Init /\ [][NextFair]_vars /\ Fairness

\* the thread of the specifications that follow one call at a time
LogThread == CHOOSE p \in Producers : TRUE

\* log_handler alone, called with every text
NextText ==
    \/ \E level \in LogLevels : \E text \in Texts :
         LogHandlerCall(LogThread, level, text)
    \/ Take(LogThread)
    \/ Body(LogThread)
    \/ QueueEvent(LogThread)
    \/ Return(LogThread)

SpecText == Init /\ [][NextText]_vars

\* the texts of the specification of the widget
WidgetTexts == {<<>>, OneLine, TwoLines}

\* the widget, with one thread logging
NextWidget ==
    \/ \E level \in LogLevels : \E text \in WidgetTexts :
         LogHandlerCall(LogThread, level, text)
    \/ Take(LogThread)
    \/ Body(LogThread)
    \/ QueueEvent(LogThread)
    \/ Return(LogThread)
    \/ Dequeue
    \/ ResetTake
    \/ ResetBody
    \/ ResetReturn
    \/ Deliver
    \/ Expire
    \/ UpdateCodec
    \/ PlaybackChange
    \/ DtorUnsubscribe
    \/ DtorCancel
    \/ Construct
    \/ TickQuantum

SpecWidget == Init /\ [][NextWidget]_vars

InitScenario == InitStatics /\ step = 0

NextScenario ==
    \/ ScenarioAdmit
    \/ Dequeue
    \/ ResetTake
    \/ ResetBody
    \/ ResetReturn
    \/ TickMs

SpecScenario == InitScenario /\ [][NextScenario]_vars

TypeOK ==
    /\ current_message_level \in {NoLevel} \cup Levels
    /\ current_message_serial \in 0 .. MaxSerial + Len(results)
    /\ message_lock \in {Free, MainHolds} \cup {Holds(p) : p \in Producers}
    /\ main.pc \in {"idle", "reset_take", "reset_crit", "reset_ret", "dtor"}
    /\ \A p \in Producers :
         prod[p].pc \in {"idle", "take", "crit", "event", "ret", "crashed"}
    /\ Len(events) <= MaxSerial
    /\ now \in 0 .. MaxTime
    /\ css \in {"normal", "warning", "error"}
    /\ codec_visible \in BOOLEAN
    /\ ready \in BOOLEAN
    /\ crashed \in BOOLEAN

(***************************************************************************)
(* The claims.                                                             *)
(***************************************************************************)
ResetRunning == main.pc \in {"reset_take", "reset_crit", "reset_ret"}

\* C1: a call of set_message_level returns true if and only if, when it holds
\* the lock, no severity is active or its severity is strictly greater than
\* the active one.
C1_AdmitIffHigher ==
    [][\A p \in Producers :
         Body(p) =>
           (prod'[p].ret <=>
              (current_message_level = NoLevel
                 \/ prod[p].level > current_message_level))]_vars

\* a call of the active severity itself has been rejected
C1_Witness ==
    \E p \in Producers :
      /\ prod[p].pc = "ret"
      /\ ~prod[p].ret
      /\ prod[p].level = current_message_level

\* C2: once the cooldown of 1000 ms has passed since the last admission, the
\* deferred reset has set the active severity back to none, and a call of any
\* severity, the lowest included, is then admitted.
C2_ResetAfterCooldown ==
    (current_message_serial > 0 /\ now > opened + CooldownMs) =>
      /\ current_message_level = NoLevel
      /\ \A l \in Levels : ~Rejects(l, current_message_level)

\* the reset of the last admission has just run, at the end of its cooldown
C2_Witness ==
    /\ current_message_serial > 0
    /\ now = opened + CooldownMs
    /\ main.pc = "reset_ret"
    /\ main.serial = current_message_serial
    /\ current_message_level = NoLevel

\* C3: a deferred reset that captured a serial which a later admission has
\* advanced leaves the active severity as it is, also when it was already
\* taken off the queue and waiting for the lock during that admission.
C3_StaleResetNoOp ==
    [][(main.pc = "reset_crit" /\ main.serial # current_message_serial) =>
         current_message_level' = current_message_level]_vars

\* the reset of the Warning window has run after Error was admitted, and the
\* active severity is still Error
C3_Witness ==
    /\ main.pc = "reset_ret"
    /\ main.serial # current_message_serial
    /\ current_message_level = Error

Expected == <<TRUE, FALSE, TRUE, FALSE, TRUE>>

C6_Scenario ==
    /\ \A i \in 1 .. Len(results) : results[i] = Expected[i]
    /\ (step >= 3 /\ now < 1600) => current_message_level = Error
    /\ (step = 4 /\ now >= 1601) => current_message_level = NoLevel
    /\ (step = 5 /\ now < 1700 + CooldownMs) => current_message_level = Info

\* the five calls have been made and the last one, at 1700, was admitted
C6_Witness == step = 5 /\ now = 1700 /\ results = Expected

\* C7: when teardown is over, no "qtui log message" event is pending and no
\* producer is inside log_handler to queue one, so none reaches log_message
\* of the destroyed widget.
C7_TeardownCancelsEvents ==
    ~alive => (events = <<>> /\ \A p \in Producers : prod[p].pc = "idle")

\* teardown is over and it has cancelled a pending display event
C7_Witness == ~alive /\ cancelled > 0

\* C8 as claimed: when teardown is over, no deferred reset is pending or runs.
C8_ResetCancelled == ~alive => (message_func = NoTimer /\ ~ResetRunning)

\* C8 as amended: teardown leaves the rate limiter alone: the deferred reset
\* that is pending stays pending, and when it runs it changes nothing of the
\* widget or of the event queue.
C8_ResetSurvivesTeardown ==
    [][/\ (alive /\ ~alive') =>
            UNCHANGED <<message_func, current_message_level,
                        current_message_serial>>
       /\ (ResetRunning /\ main' # main) =>
            UNCHANGED <<events, display, alive, subscribed>>]_vars

\* the reset of the last admission has run after the widget was destroyed
C8_Witness ==
    /\ ~alive
    /\ main.pc = "reset_ret"
    /\ main.serial = current_message_serial
    /\ current_message_level = NoLevel

\* C9: a rejected call changes nothing: the active severity, the serial and
\* the pending reset with its expiry are as before, and log_handler returns
\* without queueing a display event.
C9_RejectChangesNothing ==
    [][\A p \in Producers :
         /\ (Body(p) /\ ~prod'[p].ret) =>
              /\ UNCHANGED <<current_message_level, current_message_serial,
                             message_func, events, display>>
              /\ prod'[p].pc = "ret"
         /\ (prod[p].pc = "ret" /\ ~prod[p].ret /\ prod'[p] # prod[p]) =>
              (prod'[p].pc = "idle" /\ UNCHANGED <<events, display>>)]_vars

\* a call was rejected while the reset of an earlier admission is pending
\* with the expiry that admission gave it
C9_Witness ==
    \E p \in Producers :
      /\ prod[p].pc = "ret"
      /\ ~prod[p].ret
      /\ opened < now
      /\ message_func = [serial |-> current_message_serial,
                         due |-> opened + CooldownMs]

\* the serials captured by the admitted messages still on their way
Captured ==
    [i \in 1 .. Len(events) |-> events[i].serial]
      \o IF \E p \in Producers : prod[p].pc = "event"
           THEN LET ps == {p \in Producers : prod[p].pc = "event"}
                    Ser[S \in SUBSET ps] ==
                      IF S = {} THEN <<>>
                      ELSE LET p == CHOOSE x \in S : TRUE
                           IN <<prod[p].serial>> \o Ser[S \ {p}]
                IN Ser[ps]
           ELSE <<>>

\* C10: an accepted call sets the active severity to its own and advances the
\* serial by exactly one; the serial never decreases and changes on nothing
\* but an acceptance; distinct admitted messages capture distinct serials.
C10_SerialAdvances ==
    /\ [][/\ \A p \in Producers :
               (Body(p) /\ prod'[p].ret) =>
                 /\ current_message_level' = prod[p].level
                 /\ current_message_serial' = current_message_serial + 1
                 /\ prod'[p].serial = current_message_serial'
          /\ current_message_serial' >= current_message_serial
          /\ current_message_serial' # current_message_serial =>
               \E p \in Producers : Body(p) /\ prod'[p].ret]_vars
    /\ [](\A i, j \in 1 .. Len(Captured) :
            i # j => Captured[i] # Captured[j])

\* two messages have been admitted and their display events are both queued
C10_Witness ==
    /\ Len(events) = 2
    /\ events[1].serial # events[2].serial
    /\ current_message_serial = 2

(***************************************************************************)
(* C11: one suppression window at a time.                                  *)
(***************************************************************************)
\* the queued reset of the message that holds the current serial
ResetPending ==
    /\ message_func # NoTimer
    /\ message_func.serial = current_message_serial

\* the main loop is inside the reset of the message that holds the serial
ResetInCall == ResetRunning /\ main.serial = current_message_serial

\* C11: whenever the active severity is not none, exactly one deferred reset
\* carrying the current serial is outstanding, queued or being run by the
\* main loop; whenever the active severity is none, no queued reset carries
\* the current serial.
C11_OneWindow ==
    /\ current_message_level # NoLevel => (ResetPending \/ ResetInCall)
    /\ current_message_level = NoLevel => ~ResetPending
    /\ ~(ResetPending /\ ResetInCall)

\* a superseded reset is being run while the reset of the current message
\* is queued and its severity is active
C11_Witness ==
    /\ current_message_level = Error
    /\ ResetPending
    /\ ResetRunning
    /\ main.serial # current_message_serial


(***************************************************************************)
(* C12: the text of the display event.                                     *)
(***************************************************************************)
\* r is a line of text: it holds no separator, it starts the text or
\* follows a separator, and it ends the text or is followed by one
IsLine(text, i, j) ==
    /\ \A k \in i .. j : text[k] # NL
    /\ i = 1 \/ text[i - 1] = NL
    /\ j = Len(text) \/ text[j + 1] = NL

\* r is the last non-empty line of text: only separators follow it; a text
\* with no non-empty line has the empty one
LastNonEmptyLine(text, r) ==
    \/ \E i, j \in DOMAIN text :
         /\ i <= j
         /\ IsLine(text, i, j)
         /\ \A k \in j + 1 .. Len(text) : text[k] = NL
         /\ r = SubSeq(text, i, j)
    \/ /\ \A k \in DOMAIN text : text[k] = NL
       /\ r = <<>>

\* C12: for every input text, log_handler ends with a display event queued
\* whose text is the input itself when the input holds no newline, and the
\* last non-empty line of the input otherwise.
C12_LastLine ==
    /\ ~crashed
    /\ \A p \in Producers :
         (prod[p].pc = "ret" /\ prod[p].ret) =>
           /\ events # <<>>
           /\ IF Contains(prod[p].text, NL)
                THEN LastNonEmptyLine(prod[p].text, events[Len(events)].text)
                ELSE events[Len(events)].text = prod[p].text


(***************************************************************************)
(* C13: a message with an empty text.                                      *)
(***************************************************************************)
\* C13: when log_message has processed the display event of a message with
\* an empty text, the status bar has the normal style and the codec label
\* is shown if playback is ready.
C13_EmptyTextDefault ==
    [][(Deliver /\ alive /\ Head(events).text = <<>>) =>
         (css' = "normal" /\ codec_visible' = ready)]_vars

(***************************************************************************)
(* C17: the codec label and the message.                                   *)
(***************************************************************************)
\* currentMessage() is not empty
Displayed == display.text # <<>>

\* C17: whenever a message is displayed the codec label is hidden;
\* update_codec changes nothing while a message is displayed; and when the
\* message is cleared the normal style is restored and the codec label is
\* shown if and only if playback is ready.
C17_CodecHiddenByMessage ==
    /\ [](Displayed => ~codec_visible)
    /\ [][(UpdateCodec /\ Displayed) => UNCHANGED vars]_vars
    /\ [][(alive' /\ Displayed /\ ~Displayed') =>
            (css' = "normal" /\ codec_visible' = ready)]_vars

\* a message is displayed while playback is ready, the label hidden, after
\* the label was shown and an earlier message was displayed and cleared
C17_Witness ==
    /\ Displayed
    /\ ready
    /\ ~codec_visible
    /\ css = "error"
    /\ display.over = "none"
    /\ display.serial = 2


(***************************************************************************)
(* C14: the suppression ends.                                              *)
(***************************************************************************)
\* C14: under fair scheduling, from every state with an active severity
\* the severity becomes none again, whatever calls the producers go on
\* making.
C14_SuppressionEnds ==
    (current_message_level # NoLevel) ~> (current_message_level = NoLevel)

\* a severity is active that was admitted inside the window of another
C14_Witness ==
    /\ current_message_level = Error
    /\ current_message_serial = 2
    /\ ResetPending
    /\ now < message_func.due
    /\ now > opened


(***************************************************************************)
(* C16: the lock.                                                          *)
(***************************************************************************)
\* the threads between message_lock.take() and the release
Inside ==
    {Holds(p) : p \in {q \in Producers : prod[q].pc = "crit"}}
      \cup (IF main.pc \in {"reset_crit", "reset_ret"} THEN {MainHolds}
                                                      ELSE {})

Unqueued == {prod[p].serial : p \in {q \in Producers : prod[q].pc = "event"}}

\* C15: the display events are queued and shown in the order in which
\* their messages were admitted: an event is queued after, and shown after,
\* the event of every message admitted before it.
C15_AdmissionOrder ==
    /\ \A i, j \in DOMAIN events :
         i < j => events[i].serial < events[j].serial
    /\ \A i \in DOMAIN events :
         /\ display # NoMessage => display.serial < events[i].serial
         /\ \A u \in Unqueued : events[i].serial < u
    /\ \A u \in Unqueued : display # NoMessage => display.serial < u

====
